---- MODULE Spec2Model ----
(***************************************************************************)
(* ansible-bender: Application (src/ansible_bender/api.py).                *)
(*                                                                         *)
(* The model follows Application.build() statement by statement and the    *)
(* three callbacks the task engine invokes per task                        *)
(* (maybe_load_from_cache, record_progress, cache_task_result).            *)
(* Database, Build and the Builder are collaborators whose code is not     *)
(* part of api.py: Database and Build follow the design document           *)
(* (sections 4.1-4.3), the Builder and the task engine are external        *)
(* (section 6) and every call to them may succeed or raise.                *)
(***************************************************************************)
EXTENDS Integers, Sequences, FiniteSets, TLC

\* ------------------------------------------------------------------ bounds

\* number of tasks of the playbook that build b1 is given
NumTasks == 3

\* number of tasks of the playbook that build b2 is given: the first tasks
\* of the playbook of b1
OtherTasks == 1

\* ------------------------------------------------------------- value sets

\* Python's None
Null == "None"

\* no exception is being raised
NoException == "no exception"

\* the builds handed to Application.build(); each has a distinct build id
BuildIds == {"b1", "b2"}

\* what builder.get_image_id(build.base_image) can answer
BaseImageIds == {"sha:base1", "sha:base2"}

\* b2 is built on the base image of b1 or on another one
BaseImageIdsOf(b) == IF b = "b1" THEN {"sha:base1"} ELSE BaseImageIds

\* the number of tasks of the playbook at playbook_path
PlaybookLen(b) == IF b = "b1" THEN NumTasks ELSE OtherTasks

\* what builder.commit(image_name) can answer
CommitIds == {"sha:layerA", "sha:layerB"}

\* datetime.datetime.now().strftime("%Y%M%d-%H%M%S")
Timestamps == {"20181105-101500"}

\* the content of the i-th task of the playbook: the first and the third
\* task have the same content
TaskContent(i) == IF i % 2 = 1 THEN "install-pkg" ELSE "copy-conf"

\* build.target_image, a string as a sequence of pieces
TargetImage(b) == IF b = "b1" THEN <<"Img-one">> ELSE <<"img-two">>

\* the line the task engine captures for task i
TaskLine(i) == <<"TASK", TaskContent(i)>>

\* ------------------------------------------------------- Python semantics

\* truth value of a str-or-None: None and "" are false
Truthy(v) == v # Null /\ v # ""

\* str.lower() on one piece of a string
LowerPiece(p) == IF p = "Img-one" THEN "img-one" ELSE p

\* str.lower()
Lower(s) == [i \in 1..Len(s) |-> LowerPiece(s[i])]

\* "\n".join(lines): the pieces of the lines, separated by "\n"
RECURSIVE JoinLines(_)
JoinLines(lines) ==
    IF lines = <<>> THEN <<>>
    ELSE IF Len(lines) = 1 THEN lines[1]
    ELSE lines[1] \o <<"\n">> \o JoinLines(Tail(lines))

\* str.split("\n"): always at least one line, the last one is what follows
\* the last "\n"
RECURSIVE SplitLines(_)
SplitLines(s) ==
    IF \A i \in 1..Len(s) : s[i] # "\n" THEN <<s>>
    ELSE LET k == CHOOSE i \in 1..Len(s) :
                      s[i] = "\n" /\ \A j \in 1..(i - 1) : s[j] # "\n"
         IN <<SubSeq(s, 1, k - 1)>> \o SplitLines(SubSeq(s, k + 1, Len(s)))

\* -------------------------------------------------- Build (design 4.3)

\* a Layer record
Layer(content, layer_id, base_image_id, cached) ==
    [content |-> content, layer_id |-> layer_id,
     base_image_id |-> base_image_id, cached |-> cached]

\* a fresh Build object as the caller hands it to build()
NewBuild(b, cache_tasks) ==
    [build_id |-> b, state |-> "SCHEDULED", layers |-> <<>>,
     log_lines |-> <<>>, cache_tasks |-> cache_tasks,
     started |-> FALSE, finished |-> FALSE]

\* Build.get_top_layer_id(): [ok, value]; EmptyChain on an empty chain
GetTopLayerId(build) ==
    IF build.layers = <<>> THEN [ok |-> FALSE, value |-> Null]
    ELSE [ok |-> TRUE, value |-> build.layers[Len(build.layers)].layer_id]

\* Build.record_layer(): [ok, build]; InvariantViolation when the chain has
\* a top layer and base_image_id is not its id
RecordLayer(build, content, layer_id, base_image_id, cached) ==
    IF build.layers # <<>>
       /\ build.layers[Len(build.layers)].layer_id # base_image_id
    THEN [ok |-> FALSE, build |-> build]
    ELSE [ok |-> TRUE,
          build |-> [build EXCEPT !.layers =
                        Append(@, Layer(content, layer_id, base_image_id, cached))]]

\* Build.transition(): the allowed moves of the state machine
TransitionAllowed(old, new) ==
    \/ old = "SCHEDULED" /\ new = "IN_PROGRESS"
    \/ old = "IN_PROGRESS" /\ new \in {"DONE", "FAILED"}
    \/ old \in {"DONE", "FAILED"} /\ new = old

\* ----------------------------------------- Database (design 4.1, 4.2)

\* Database.get_build(build_id)
GetBuild(dbv, build_id) == dbv[build_id]

\* put(key, record)
Put(dbv, build) ==
    [k \in DOMAIN dbv \cup {build.build_id} |->
        IF k = build.build_id THEN build ELSE dbv[k]]

\* Database.record_build(build_i, build_id, build_state, set_finish_time):
\* [ok, db, build]; with build_id the stored record is the one updated;
\* InvalidTransition leaves the store as it is
RecordBuild(dbv, build_i, build_id, build_state, set_finish_time) ==
    LET b0 == IF build_id # Null THEN GetBuild(dbv, build_id) ELSE build_i
        ok == build_state = Null \/ TransitionAllowed(b0.state, build_state)
        b1 == IF build_state # Null THEN [b0 EXCEPT !.state = build_state] ELSE b0
        b2 == IF set_finish_time THEN [b1 EXCEPT !.finished = TRUE] ELSE b1
    IN IF ok THEN [ok |-> TRUE, db |-> Put(dbv, b2), build |-> b2]
       ELSE [ok |-> FALSE, db |-> dbv, build |-> b0]

\* Database.get_cached_layer(content, base_image_id): LayerCache.lookup
GetCachedLayer(st, content, base_image_id) ==
    IF \E e \in st : e.content = content /\ e.base_image_id = base_image_id
    THEN (CHOOSE e \in st :
              e.content = content /\ e.base_image_id = base_image_id).layer_id
    ELSE Null

\* an insert that replaces the entry of the key
SaveLayerOverwriting(st, layer_id, base_image_id, content) ==
    [ok |-> TRUE,
     store |-> {e \in st : ~(e.content = content /\ e.base_image_id = base_image_id)}
                  \cup {[content |-> content, base_image_id |-> base_image_id,
                         layer_id |-> layer_id]}]

\* Database.save_layer(layer_id, base_image_id, content): LayerCache.insert,
\* [ok, store]; the same key with another value is an error
SaveLayer(st, layer_id, base_image_id, content) ==
    LET old == GetCachedLayer(st, content, base_image_id)
    IN IF old # Null /\ old # layer_id
       THEN [ok |-> FALSE, store |-> st]
       ELSE [ok |-> TRUE,
             store |-> st \cup {[content |-> content,
                                 base_image_id |-> base_image_id,
                                 layer_id |-> layer_id]}]

\* ----------------------------------------------------------------- state

VARIABLES
    db,      \* Database: the persisted Build records, by build id
    store,   \* Database: the cache index, entries (content, base_image_id, layer_id)
    mem,     \* the Build object each build() call was given
    pc,      \* where each build() call is
    task,    \* the task the task engine is at, 0 before a_runner.build
    out,     \* the lines the task engine has captured
    ret,     \* what the last maybe_load_from_cache returned to the engine
    loc,     \* local variables: b of build(); build, layer_id, base_image_id
             \* of cache_task_result
    calls,   \* in order, the calls of each build() that write its Build record
             \* or go to the Builder for an image: record_build, get_image_id,
             \* swap_working_container, commit, clean
    exc,     \* the exception a build() call is ending with
    cberr    \* the exception the last callback raised into the engine

vars == <<db, store, mem, pc, task, out, ret, loc, calls, exc, cberr>>

NoLocals == [build |-> Null, layer_id |-> Null, base_image_id |-> Null]

Init ==
    /\ db = <<>>
    /\ store = {}
    /\ \E cache_tasks \in [BuildIds -> BOOLEAN] :
          mem = [b \in BuildIds |-> NewBuild(b, cache_tasks[b])]
    /\ pc = [b \in BuildIds |-> "L55"]
    /\ task = [b \in BuildIds |-> 0]
    /\ out = [b \in BuildIds |-> <<>>]
    /\ ret = [b \in BuildIds |-> Null]
    /\ loc = [b \in BuildIds |-> NoLocals]
    /\ calls = [b \in BuildIds |-> <<>>]
    /\ exc = [b \in BuildIds |-> NoException]
    /\ cberr = [b \in BuildIds |-> NoException]

\* one call of build() to a collaborator, as it is noted in calls
Call(name, args) == <<name, args>>

\* a record_build call, with what it wrote
Recorded(build) ==
    Call("record_build",
         <<build.state,
           IF build.finished THEN "finish time" ELSE "no finish time",
           IF build.log_lines = <<>> THEN "no log lines" ELSE "log lines">>)

Goto(b, label) == pc' = [pc EXCEPT ![b] = label]

Note(b, ev) == calls' = [calls EXCEPT ![b] = Append(@, ev)]

Raise(b, e) == exc' = [exc EXCEPT ![b] = e]

\* --------------------------------------------- Application.build, 47-101

\* line 55-56: the playbook must be a file
Validate(b) ==
    /\ pc[b] = "L55"
    /\ \E isfile \in BOOLEAN :
          IF isfile THEN Goto(b, "L61") /\ UNCHANGED exc
          ELSE Goto(b, "raised") /\ Raise(b, "RuntimeError")
    /\ UNCHANGED <<db, store, mem, task, out, ret, loc, calls, cberr>>

\* the first record_build left out: the build goes to the Builder unrecorded
RecordScheduledSkipped(b) ==
    /\ pc[b] = "L61"
    /\ Goto(b, "L63")
    /\ UNCHANGED <<db, store, mem, task, out, ret, loc, calls, exc, cberr>>

\* line 58-61: "we have to record as soon as possible"
RecordScheduled(b) ==
    /\ pc[b] = "L61"
    /\ LET rb == RecordBuild(db, mem[b], Null, Null, FALSE)
       IN /\ db' = rb.db
          /\ mem' = [mem EXCEPT ![b] = rb.build]
          /\ Note(b, Recorded(rb.build))
    /\ Goto(b, "L63")
    /\ UNCHANGED <<store, task, out, ret, loc, exc, cberr>>

\* the base image recorded as a layer on top of itself
BaseLayerOfOwnBase(build, base_image_id) ==
    RecordLayer(build, Null, base_image_id, base_image_id, TRUE)

\* the base image not recorded as a layer
BaseLayerNotRecorded(build, base_image_id) == [ok |-> TRUE, build |-> build]

\* line 66: the base image is the first layer
BaseLayerOf(build, base_image_id) ==
    RecordLayer(build, Null, base_image_id, Null, TRUE)

\* line 63-66
RecordBaseLayer(b) ==
    /\ pc[b] = "L63"
    /\ Note(b, Call("get_image_id", <<>>))
    /\ \E r \in BaseImageIdsOf(b) \cup {"raise"} :
          IF r = "raise"
          THEN Goto(b, "raised") /\ Raise(b, "BuilderError") /\ UNCHANGED mem
          ELSE LET rl == BaseLayerOf(mem[b], r)
               IN IF rl.ok
                  THEN /\ mem' = [mem EXCEPT ![b] = rl.build]
                       /\ Goto(b, "L71") /\ UNCHANGED exc
                  ELSE /\ Goto(b, "raised") /\ Raise(b, "InvariantViolation")
                       /\ UNCHANGED mem
    /\ UNCHANGED <<db, store, task, out, ret, loc, cberr>>

\* line 70-71
RecordInProgress(b) ==
    /\ pc[b] = "L71"
    /\ LET started == [mem[b] EXCEPT !.started = TRUE]
           rb == RecordBuild(db, started, Null, "IN_PROGRESS", FALSE)
       IN IF rb.ok
          THEN /\ db' = rb.db
               /\ mem' = [mem EXCEPT ![b] = rb.build]
               /\ Note(b, Recorded(rb.build))
               /\ Goto(b, "L73") /\ UNCHANGED exc
          ELSE /\ mem' = [mem EXCEPT ![b] = started]
               /\ Goto(b, "raised") /\ Raise(b, "InvalidTransition")
               /\ UNCHANGED <<db, calls>>
    /\ UNCHANGED <<store, task, out, ret, loc, cberr>>

\* a Builder call of lines 73-77, outside the try: it returns or it raises
BuilderCall(b, at, name, next) ==
    /\ pc[b] = at
    /\ \E raises \in BOOLEAN :
          IF raises THEN Goto(b, "raised") /\ Raise(b, "BuilderError")
          ELSE (\E n \in next : Goto(b, n)) /\ UNCHANGED exc
    /\ UNCHANGED <<db, store, mem, task, out, ret, loc, calls, cberr>>

\* line 73: pull only when the base image is not present
IsBaseImagePresent(b) == BuilderCall(b, "L73", "is_base_image_present", {"L74", "L75"})

\* line 74
Pull(b) == BuilderCall(b, "L74", "pull", {"L75"})

\* line 75
FindPythonInterpreter(b) == BuilderCall(b, "L75", "find_python_interpreter", {"L77"})

\* line 77
Create(b) == BuilderCall(b, "L77", "create", {"L81"})

\* ------------------------------------------------- the three callbacks

\* line 156-165
GetLayer(st, content, base_image_id) == GetCachedLayer(st, content, base_image_id)

\* the cache_tasks check left out
LoadNeverDisabled(build) == FALSE

\* line 147: caching is disabled for the build
LoadDisabled(build) == ~build.cache_tasks

\* the id of the base image instead of the id of the top layer
LoadFirstLayerId(build) ==
    IF build.layers = <<>> THEN [ok |-> FALSE, value |-> Null]
    ELSE [ok |-> TRUE, value |-> build.layers[1].layer_id]

\* line 150: the ancestry half of the lookup key
LoadBaseImageId(build) == GetTopLayerId(build)

\* line 143-154, maybe_load_from_cache(content, build_id):
\* [ok, ret, swap, err]; swap says that builder.swap_working_container() ran
MaybeLoadFromCache(dbv, st, content, build_id) ==
    LET build == GetBuild(dbv, build_id)
        top == LoadBaseImageId(build)
        layer_id == GetLayer(st, content, top.value)
    IN IF LoadDisabled(build)
       THEN [ok |-> TRUE, ret |-> Null, swap |-> FALSE, err |-> NoException]
       ELSE IF ~top.ok
       THEN [ok |-> FALSE, ret |-> Null, swap |-> FALSE, err |-> "EmptyChain"]
       ELSE [ok |-> TRUE, ret |-> layer_id, swap |-> Truthy(layer_id),
             err |-> NoException]

\* the id of the base image taken as the base of the layer being recorded
ProgressFirstLayerId(build) ==
    IF build.layers = <<>> THEN [ok |-> FALSE, value |-> Null]
    ELSE [ok |-> TRUE, value |-> build.layers[1].layer_id]

\* line 179: the base of the layer being recorded
ProgressBaseImageId(build) == GetTopLayerId(build)

\* line 167-187, record_progress(build, content, layer_id, build_id):
\* [ok, db, ret, err]
RecordProgress(dbv, st, build, content, layer_id, build_id) ==
    LET b0 == IF Truthy(build_id) THEN GetBuild(dbv, build_id) ELSE build
        top == ProgressBaseImageId(b0)
        skipped == ~Truthy(layer_id)
        lid == IF skipped THEN GetLayer(st, content, top.value) ELSE layer_id
        rl == RecordLayer(b0, content, lid, top.value, skipped)
        rb == RecordBuild(dbv, rl.build, Null, Null, FALSE)
    IN IF ~top.ok
       THEN [ok |-> FALSE, db |-> dbv, ret |-> Null, err |-> "EmptyChain"]
       ELSE IF ~rl.ok
       THEN [ok |-> FALSE, db |-> dbv, ret |-> Null, err |-> "InvariantViolation"]
       ELSE [ok |-> TRUE, db |-> rb.db, ret |-> top.value, err |-> NoException]

\* the cache_tasks check of cache_task_result left out
SnapshotNeverDisabled(build) == FALSE

\* line 192: caching is disabled for the build
SnapshotDisabled(build) == ~build.cache_tasks

\* line 194-197: "%s-%s" % (target_image, timestamp), lower case
SnapshotImageName(target_image, timestamp) ==
    Lower(target_image \o <<"-", timestamp>>)

\* layer_id and base_image_id in each other's place
SaveSnapshotSwapped(st, layer_id, base_image_id, content) ==
    SaveLayer(st, base_image_id, layer_id, content)

\* line 202: db.save_layer(layer_id, base_image_id, content)
SaveSnapshot(st, layer_id, base_image_id, content) ==
    SaveLayer(st, layer_id, base_image_id, content)

\* ---------------------------------------------- the task engine (6)

\* the engine goes on to the next task, or returns when there is none
NextTask(b) ==
    /\ task' = [task EXCEPT ![b] = @ + 1]
    /\ Goto(b, IF task[b] + 1 > PlaybookLen(b) THEN "runner_return" ELSE "load")

\* a callback returned
CallbackReturned(b) == cberr' = [cberr EXCEPT ![b] = NoException]

\* a callback raised: the engine goes on, or reports the build as failed
CallbackRaised(b, e) ==
    /\ cberr' = [cberr EXCEPT ![b] = e]
    /\ \E goes_on \in BOOLEAN :
          IF goes_on THEN NextTask(b) ELSE Goto(b, "L83") /\ UNCHANGED task

\* line 81: a_runner.build(...) starts with the first task
RunnerStart(b) ==
    /\ pc[b] = "L81"
    /\ task' = [task EXCEPT ![b] = 1]
    /\ Goto(b, IF PlaybookLen(b) = 0 THEN "runner_return" ELSE "load")
    /\ UNCHANGED <<db, store, mem, out, ret, loc, calls, exc, cberr>>

\* before a task: maybe_load_from_cache(content, build_id); a layer id makes
\* the engine skip the task
TryReuse(b) ==
    /\ pc[b] = "load"
    /\ LET r == MaybeLoadFromCache(db, store, TaskContent(task[b]), b)
       IN /\ ret' = [ret EXCEPT ![b] = r.ret]
          /\ IF r.swap THEN Note(b, Call("swap_working_container", <<>>))
             ELSE UNCHANGED calls
          /\ IF r.ok
             THEN /\ Goto(b, IF Truthy(r.ret) THEN "skip" ELSE "exec")
                  /\ CallbackReturned(b) /\ UNCHANGED task
             ELSE CallbackRaised(b, r.err)
    /\ UNCHANGED <<db, store, mem, out, loc, exc>>

\* a skipped task: record_progress(None, content, None, build_id)
SkippedTask(b) ==
    /\ pc[b] = "skip"
    /\ LET r == RecordProgress(db, store, Null, TaskContent(task[b]), Null, b)
       IN /\ db' = r.db
          /\ IF r.ok THEN NextTask(b) /\ CallbackReturned(b)
             ELSE CallbackRaised(b, r.err)
    /\ out' = [out EXCEPT ![b] = Append(@, TaskLine(task[b]))]
    /\ UNCHANGED <<store, mem, ret, loc, calls, exc>>

\* the task runs in the working container: it succeeds, and the engine calls
\* cache_task_result, or it fails, and the engine raises AbBuildUnsuccesful
\* with the output it has
ExecuteTask(b) ==
    /\ pc[b] = "exec"
    /\ \E succeeds \in BOOLEAN :
          IF succeeds
          THEN /\ out' = [out EXCEPT ![b] = Append(@, TaskLine(task[b]))]
               /\ Goto(b, "L191")
          ELSE /\ Goto(b, "L83")
               /\ UNCHANGED out
    /\ UNCHANGED <<db, store, mem, task, ret, loc, calls, exc, cberr>>

\* line 191-200, cache_task_result: nothing when caching is disabled, else
\* the container is committed
SnapshotCommit(b) ==
    /\ pc[b] = "L191"
    /\ LET build == GetBuild(db, b)
       IN IF SnapshotDisabled(build)
          THEN NextTask(b) /\ CallbackReturned(b) /\ UNCHANGED <<loc, calls>>
          ELSE \E ts \in Timestamps, r \in CommitIds \cup {"raise"} :
                  /\ Note(b, Call("commit", SnapshotImageName(TargetImage(b), ts)))
                  /\ IF r = "raise"
                     THEN CallbackRaised(b, "BuilderError") /\ UNCHANGED loc
                     ELSE /\ loc' = [loc EXCEPT ![b] =
                                        [build |-> build, layer_id |-> r,
                                         base_image_id |-> Null]]
                          /\ Goto(b, "L201") /\ UNCHANGED <<task, cberr>>
    /\ UNCHANGED <<db, store, mem, out, ret, exc>>

\* the committed layer not recorded before the cache entry is written
SnapshotRecordNotPersisted(b) ==
    /\ pc[b] = "L201"
    /\ loc' = [loc EXCEPT ![b].base_image_id = GetTopLayerId(loc[b].build).value]
    /\ Goto(b, "L202")
    /\ UNCHANGED <<db, store, mem, task, out, ret, calls, exc, cberr>>

\* line 201: record_progress(build, content, layer_id)
SnapshotRecord(b) ==
    /\ pc[b] = "L201"
    /\ LET r == RecordProgress(db, store, loc[b].build, TaskContent(task[b]),
                               loc[b].layer_id, Null)
       IN /\ db' = r.db
          /\ IF r.ok
             THEN /\ loc' = [loc EXCEPT ![b].base_image_id = r.ret]
                  /\ Goto(b, "L202") /\ UNCHANGED <<task, cberr>>
             ELSE /\ loc' = [loc EXCEPT ![b] = NoLocals]
                  /\ CallbackRaised(b, r.err)
    /\ UNCHANGED <<store, mem, out, ret, calls, exc>>

\* line 202-203: the cache entry is written last
SnapshotSave(b) ==
    /\ pc[b] = "L202"
    /\ LET r == SaveSnapshot(store, loc[b].layer_id, loc[b].base_image_id,
                             TaskContent(task[b]))
       IN /\ store' = r.store
          /\ IF r.ok THEN NextTask(b) /\ CallbackReturned(b)
             ELSE CallbackRaised(b, "InvariantViolation")
    /\ loc' = [loc EXCEPT ![b] = NoLocals]
    /\ UNCHANGED <<db, mem, out, ret, calls, exc>>

\* a_runner.build returns the captured output
RunnerReturn(b) ==
    /\ pc[b] = "runner_return"
    /\ Goto(b, "L94")
    /\ UNCHANGED <<db, store, mem, task, out, ret, loc, calls, exc, cberr>>

\* ------------------------------------- Application.build, the try, 79-101

\* ex.output of the AbBuildUnsuccesful the engine raises: the captured lines
\* as one string
ExOutput(b) == JoinLines(out[b])

\* the latest build of the store taken in place of build.build_id
RecordFinishedOfLatest(dbv, build, build_state) ==
    RecordBuild(dbv, Null, CHOOSE k \in DOMAIN dbv : TRUE, build_state, TRUE)

\* line 83-84 and 94-95: record_build(None, build_id=build.build_id,
\* build_state=..., set_finish_time=True)
RecordFinished(dbv, build, build_state) ==
    RecordBuild(dbv, Null, build.build_id, build_state, TRUE)

\* the Build object build() was given, persisted in place of b
FailedRecordOfBuild(b_, build, ex_output) ==
    [build EXCEPT !.log_lines = SplitLines(ex_output)]

\* line 85: the record that line 86 persists
FailedRecord(b_, build, ex_output) ==
    [b_ EXCEPT !.log_lines = SplitLines(ex_output)]

\* the Build object build() was given, persisted in place of b
DoneRecordOfBuild(b_, build, output) ==
    [build EXCEPT !.log_lines = output]

\* line 96: the record that line 97 persists
DoneRecord(b_, build, output) ==
    [b_ EXCEPT !.log_lines = output]

\* the suffix left out
FailedImageNamePlain(target_image) == target_image

\* line 88
FailedImageName(target_image) == target_image \o <<"-failed">>

\* line 98: the name the final image is committed under
FinalImageName(target_image) == target_image

\* a statement inside the try raised: the finally clause runs, then the
\* exception goes to the caller
RaiseInTry(b, e) == Goto(b, "L101") /\ Raise(b, e)

\* line 82-84: the build failed
FailedState(b) ==
    /\ pc[b] = "L83"
    /\ LET rb == RecordFinished(db, mem[b], "FAILED")
       IN IF rb.ok
          THEN /\ db' = rb.db
               /\ loc' = [loc EXCEPT ![b] = [NoLocals EXCEPT !.build = rb.build]]
               /\ Note(b, Recorded(rb.build))
               /\ Goto(b, "L85") /\ UNCHANGED exc
          ELSE RaiseInTry(b, "InvalidTransition") /\ UNCHANGED <<db, loc, calls>>
    /\ UNCHANGED <<store, mem, task, out, ret, cberr>>

\* line 85-86: the output the engine had captured
FailedLog(b) ==
    /\ pc[b] = "L85"
    /\ LET rec == FailedRecord(loc[b].build, mem[b], ExOutput(b))
           rb == RecordBuild(db, rec, Null, Null, FALSE)
       IN /\ db' = rb.db
          /\ loc' = [loc EXCEPT ![b].build = rb.build]
          /\ Note(b, Recorded(rb.build))
    /\ Goto(b, "L88")
    /\ UNCHANGED <<store, mem, task, out, ret, exc, cberr>>

\* line 88-92: the progress is saved as <target_image>-failed, and the
\* failure is raised again
FailedCommit(b) ==
    /\ pc[b] = "L88"
    /\ Note(b, Call("commit", FailedImageName(TargetImage(b))))
    /\ \E raises \in BOOLEAN :
          RaiseInTry(b, IF raises THEN "BuilderError" ELSE "AbBuildUnsuccesful")
    /\ UNCHANGED <<db, store, mem, task, out, ret, loc, cberr>>

\* line 94-95: the build is done
DoneState(b) ==
    /\ pc[b] = "L94"
    /\ LET rb == RecordFinished(db, mem[b], "DONE")
       IN IF rb.ok
          THEN /\ db' = rb.db
               /\ loc' = [loc EXCEPT ![b] = [NoLocals EXCEPT !.build = rb.build]]
               /\ Note(b, Recorded(rb.build))
               /\ Goto(b, "L96") /\ UNCHANGED exc
          ELSE RaiseInTry(b, "InvalidTransition") /\ UNCHANGED <<db, loc, calls>>
    /\ UNCHANGED <<store, mem, task, out, ret, cberr>>

\* line 96-97: the output of the engine
DoneLog(b) ==
    /\ pc[b] = "L96"
    /\ LET rec == DoneRecord(loc[b].build, mem[b], out[b])
           rb == RecordBuild(db, rec, Null, Null, FALSE)
       IN /\ db' = rb.db
          /\ loc' = [loc EXCEPT ![b].build = rb.build]
          /\ Note(b, Recorded(rb.build))
    /\ Goto(b, "L98")
    /\ UNCHANGED <<store, mem, task, out, ret, exc, cberr>>

\* line 98: the final image
DoneCommit(b) ==
    /\ pc[b] = "L98"
    /\ Note(b, Call("commit", FinalImageName(TargetImage(b))))
    /\ \E raises \in BOOLEAN :
          IF raises THEN RaiseInTry(b, "BuilderError")
          ELSE Goto(b, "L101") /\ UNCHANGED exc
    /\ UNCHANGED <<db, store, mem, task, out, ret, loc, cberr>>

\* line 100-101: finally builder.clean(), then build() returns or raises
Clean(b) ==
    /\ pc[b] = "L101"
    /\ Note(b, Call("clean", <<>>))
    /\ \E raises \in BOOLEAN :
          IF raises THEN Goto(b, "raised") /\ Raise(b, "BuilderError")
          ELSE Goto(b, IF exc[b] = NoException THEN "returned" ELSE "raised")
               /\ UNCHANGED exc
    /\ UNCHANGED <<db, store, mem, task, out, ret, loc, cberr>>

\* ------------------------------------------------------------ behaviours

Next ==
    \E b \in BuildIds :
        \/ Validate(b)
        \/ RecordScheduled(b)
        \/ RecordBaseLayer(b)
        \/ RecordInProgress(b)
        \/ IsBaseImagePresent(b)
        \/ Pull(b)
        \/ FindPythonInterpreter(b)
        \/ Create(b)
        \/ RunnerStart(b)
        \/ TryReuse(b)
        \/ SkippedTask(b)
        \/ ExecuteTask(b)
        \/ SnapshotCommit(b)
        \/ SnapshotRecord(b)
        \/ SnapshotSave(b)
        \/ RunnerReturn(b)
        \/ FailedState(b)
        \/ FailedLog(b)
        \/ FailedCommit(b)
        \/ DoneState(b)
        \/ DoneLog(b)
        \/ DoneCommit(b)
        \/ Clean(b)

Spec == Init /\ [][Next]_vars

\* ------------------------- the callbacks, called by any task engine (6)

\* number of callback calls the engines make, all builds together
MaxCallbacks == 3

\* the task contents an engine passes
Contents == {TaskContent(1), TaskContent(2)}

\* the Build record when build() hands control to the engine at line 81
BuildInProgress(b, cache_tasks, base_image_id) ==
    [NewBuild(b, cache_tasks) EXCEPT
         !.state = "IN_PROGRESS", !.started = TRUE,
         !.layers = <<Layer(Null, base_image_id, Null, TRUE)>>]

\* both build() calls are at line 81, inside a_runner.build: the records
\* are IN_PROGRESS with the base layer, the cache index is empty; task counts
\* the callback calls the engine of a build has made
InitApi ==
    /\ \E cache_tasks \in [BuildIds -> BOOLEAN] :
       \E base \in [BuildIds -> BaseImageIds] :
          /\ \A b \in BuildIds : base[b] \in BaseImageIdsOf(b)
          /\ mem = [b \in BuildIds |-> BuildInProgress(b, cache_tasks[b], base[b])]
    /\ db = mem
    /\ store = {}
    /\ pc = [b \in BuildIds |-> "engine"]
    /\ task = [b \in BuildIds |-> 0]
    /\ out = [b \in BuildIds |-> <<>>]
    /\ ret = [b \in BuildIds |-> Null]
    /\ loc = [b \in BuildIds |-> NoLocals]
    /\ calls = [b \in BuildIds |->
                  <<Recorded(NewBuild(b, FALSE)), Call("get_image_id", <<>>),
                    Recorded(mem[b])>>]
    /\ exc = [b \in BuildIds |-> NoException]
    /\ cberr = [b \in BuildIds |-> NoException]

\* the callback calls made so far
RECURSIVE ApiCalls(_)
ApiCalls(bs) ==
    IF bs = {} THEN 0
    ELSE LET b == CHOOSE x \in bs : TRUE IN task[b] + ApiCalls(bs \ {b})

\* one more callback call of the engine of b
ApiCall(b) ==
    /\ pc[b] = "engine" /\ ApiCalls(BuildIds) < MaxCallbacks
    /\ task' = [task EXCEPT ![b] = @ + 1]

\* line 143-154: maybe_load_from_cache(content, build_id)
ApiMaybeLoadFromCache(b) ==
    /\ ApiCall(b)
    /\ \E content \in Contents :
          LET r == MaybeLoadFromCache(db, store, content, b)
          IN /\ ret' = [ret EXCEPT ![b] = r.ret]
             /\ cberr' = [cberr EXCEPT ![b] = r.err]
             /\ IF r.swap THEN Note(b, Call("swap_working_container", <<>>))
                ELSE UNCHANGED calls
    /\ UNCHANGED <<db, store, mem, pc, out, loc, exc>>

\* line 167-187: record_progress(None, content, None, build_id), the call
\* for a task that was skipped
ApiRecordProgress(b) ==
    /\ ApiCall(b)
    /\ \E content \in Contents :
          LET r == RecordProgress(db, store, Null, content, Null, b)
          IN /\ db' = r.db
             /\ cberr' = [cberr EXCEPT ![b] = r.err]
    /\ UNCHANGED <<store, mem, pc, out, ret, loc, calls, exc>>

\* line 189-203: cache_task_result(content, build_id)
ApiCacheTaskResult(b) ==
    /\ ApiCall(b)
    /\ \E content \in Contents, ts \in Timestamps, c \in CommitIds \cup {"raise"} :
          LET build == GetBuild(db, b)
              rp == RecordProgress(db, store, build, content, c, Null)
              sv == SaveSnapshot(store, c, rp.ret, content)
          IN IF SnapshotDisabled(build)
             THEN /\ cberr' = [cberr EXCEPT ![b] = NoException]
                  /\ UNCHANGED <<db, store, calls>>
             ELSE /\ Note(b, Call("commit", SnapshotImageName(TargetImage(b), ts)))
                  /\ IF c = "raise"
                     THEN /\ cberr' = [cberr EXCEPT ![b] = "BuilderError"]
                          /\ UNCHANGED <<db, store>>
                     ELSE IF ~rp.ok
                     THEN /\ cberr' = [cberr EXCEPT ![b] = rp.err]
                          /\ UNCHANGED <<db, store>>
                     ELSE /\ db' = rp.db
                          /\ store' = sv.store
                          /\ cberr' = [cberr EXCEPT ![b] =
                                 IF sv.ok THEN NoException ELSE "InvariantViolation"]
    /\ UNCHANGED <<mem, pc, out, ret, loc, exc>>

NextApi ==
    \E b \in BuildIds :
        \/ ApiMaybeLoadFromCache(b)
        \/ ApiRecordProgress(b)
        \/ ApiCacheTaskResult(b)

SpecApi == InitApi /\ [][NextApi]_vars

\* ---------------------------------------------------------------- claims

\* build() of b has ended
Ended(b) == pc[b] \in {"returned", "raised"}

\* the calls of b that are equal to c
CallsOf(b, c) == {i \in 1..Len(calls[b]) : calls[b][i] = c}

\* the persisted chain of b and the id of its top layer
Chain(b) == db[b].layers

TopOf(b) == Chain(b)[Len(Chain(b))].layer_id

\* the entries of the cache index under the key (content, base_image_id)
EntriesOf(st, content, base_image_id) ==
    {e \in st : e.content = content /\ e.base_image_id = base_image_id}

\* a linked ancestry list
Ancestry(layers) ==
    /\ layers # <<>> => layers[1].base_image_id = Null
    /\ \A i \in 2..Len(layers) : layers[i].base_image_id = layers[i - 1].layer_id

\* C1: in every reachable state the persisted layer chain of every build is
\* a linked ancestry list: the first layer has no base layer id, every later
\* layer has the layer id of the layer before it as its base layer id
C1_ChainIsAncestryList == \A b \in DOMAIN db : Ancestry(Chain(b))

\* C1: a build with caching enabled has recorded the base layer, a reused
\* layer and a committed layer
C1_Witness ==
    \E b \in DOMAIN db :
        /\ Len(Chain(b)) >= 3
        /\ \E i, j \in 2..Len(Chain(b)) : Chain(b)[i].cached /\ ~Chain(b)[j].cached

\* the persisted state of b, SCHEDULED before the first record_build
StateOf(dbv, b) == IF b \in DOMAIN dbv THEN dbv[b].state ELSE "SCHEDULED"

\* C2: the persisted state of a build only moves SCHEDULED -> IN_PROGRESS ->
\* DONE or FAILED; no step takes it out of DONE or FAILED, or from SCHEDULED
\* to DONE or FAILED
C2_StateOnlyMovesForward ==
    [][\A b \in BuildIds :
          /\ b \in DOMAIN db => b \in DOMAIN db'
          /\ StateOf(db', b) # StateOf(db, b) =>
                \/ StateOf(db, b) = "SCHEDULED" /\ StateOf(db', b) = "IN_PROGRESS"
                \/ StateOf(db, b) = "IN_PROGRESS"
                   /\ StateOf(db', b) \in {"DONE", "FAILED"}]_vars

\* C2: one build has ended DONE and the other FAILED, each after the writes
\* that follow the state change
C2_Witness ==
    \E b, c \in DOMAIN db :
        /\ Ended(b) /\ db[b].state = "DONE"
        /\ Ended(c) /\ db[c].state = "FAILED"

\* C3: when build() has ended for a persisted build, it returned and the
\* record is DONE with the full output, or it raised and the record is
\* FAILED with the partial output
C3_OutcomeAgreesWithRecord ==
    \A b \in DOMAIN db :
        /\ pc[b] = "returned" =>
              db[b].state = "DONE" /\ db[b].log_lines = out[b]
        /\ pc[b] = "raised" =>
              db[b].state = "FAILED" /\ db[b].log_lines = SplitLines(ExOutput(b))

\* C4: every build() that went to the Builder and has ended has called
\* builder.clean() exactly once
C4_CleanOnEveryExit ==
    \A b \in BuildIds :
        Ended(b) /\ CallsOf(b, Call("get_image_id", <<>>)) # {} =>
            Cardinality(CallsOf(b, Call("clean", <<>>))) = 1

C6_DisabledNeverReuses ==
    \A b \in DOMAIN db :
        ~db[b].cache_tasks =>
            /\ ret[b] = Null
            /\ CallsOf(b, Call("swap_working_container", <<>>)) = {}

\* C6: maybe_load_from_cache has returned to a build with caching disabled
\* while the cache index holds an entry for its content and its top layer
C6_Witness ==
    \E b \in DOMAIN db :
        /\ ~db[b].cache_tasks /\ pc[b] = "exec"
        /\ EntriesOf(store, TaskContent(task[b]), TopOf(b)) # {}

\* C7: for a build with caching enabled, maybe_load_from_cache returns the
\* layer id l exactly when the cache index holds the entry (content, top
\* layer id of the build) -> l, and None exactly when it holds no entry
\* under that key
C7_ReuseIffExactKey ==
    [][\A b \in BuildIds :
          pc[b] = "load" /\ pc'[b] # "load" /\ db[b].cache_tasks =>
              LET es == EntriesOf(store, TaskContent(task[b]), TopOf(b))
              IN /\ ret'[b] = Null <=> es = {}
                 /\ ret'[b] # Null => \E e \in es : e.layer_id = ret'[b]
                 /\ \A e \in es : e.layer_id = ret'[b]]_vars

\* C7: two builds on different base images with the same first task: the
\* second one is not given the layer of the first one
C7_Witness ==
    \E b, c \in DOMAIN db :
        /\ db[b].cache_tasks /\ pc[b] = "exec" /\ task[b] = 1 /\ ret[b] = Null
        /\ Chain(c) # <<>>
        /\ Chain(c)[1].layer_id # Chain(b)[1].layer_id
        /\ \E e \in store : /\ e.content = TaskContent(1)
                            /\ e.base_image_id = Chain(c)[1].layer_id

\* a build with caching enabled whose top layer is top
ProbeDb(top) ==
    Put(<<>>, [NewBuild("probe", TRUE) EXCEPT
                   !.layers = <<Layer(Null, top, Null, TRUE)>>])

\* C8: when cache_task_result(content, build_id) has returned, a
\* maybe_load_from_cache(content, ...) of a build with caching enabled whose
\* top layer is the layer that was the top layer before returns the layer id
\* the builder has just committed
C8_CommitThenReuse ==
    [][\A b \in BuildIds :
          pc[b] = "L202" /\ pc'[b] # "L202" /\ cberr'[b] = NoException =>
              /\ MaybeLoadFromCache(ProbeDb(loc[b].base_image_id), store',
                                    TaskContent(task[b]), "probe").ret
                     = loc[b].layer_id
              /\ \A c \in DOMAIN db' \ {b} :
                    /\ db'[c].cache_tasks /\ db'[c].layers # <<>>
                    /\ db'[c].layers[Len(db'[c].layers)].layer_id
                           = loc[b].base_image_id
                    => MaybeLoadFromCache(db', store', TaskContent(task[b]), c).ret
                           = loc[b].layer_id]_vars

\* C8: a build is about to skip a task because maybe_load_from_cache gave it
\* the layer another build committed for that content on that top layer
C8_Witness ==
    \E b, c \in DOMAIN db :
        /\ b # c /\ pc[b] = "skip"
        /\ \E i \in 2..Len(Chain(c)) :
              Chain(c)[i] = Layer(TaskContent(task[b]), ret[b], TopOf(b), FALSE)

\* C9: the insert of cache_task_result never overwrites: the index holds at
\* most one entry per key; an insert of the value the key has leaves the
\* index as it is and returns; an insert of another value raises
\* InvariantViolation and leaves the index as it is
C9_InsertNeverOverwrites ==
    [][/\ \A e, f \in store' :
              e.content = f.content /\ e.base_image_id = f.base_image_id => e = f
       /\ \A b \in BuildIds :
              pc[b] = "L202" /\ pc'[b] # "L202" =>
                  LET es == EntriesOf(store, TaskContent(task[b]), loc[b].base_image_id)
                  IN /\ es # {} => store' = store
                     /\ (\E e \in es : e.layer_id = loc[b].layer_id) =>
                            cberr'[b] = NoException
                     /\ (\E e \in es : e.layer_id # loc[b].layer_id) =>
                            cberr'[b] = "InvariantViolation"]_vars

\* C9: an insert was refused: the layer the build recorded is not the one
\* the index holds under its key
C9_Witness ==
    \E b \in DOMAIN db :
        /\ cberr[b] = "InvariantViolation"
        /\ LET top == Chain(b)[Len(Chain(b))]
           IN \E e \in EntriesOf(store, top.content, top.base_image_id) :
                  e.layer_id # top.layer_id

\* C10: a build with caching disabled whose 3 tasks all executed ends with
\* a persisted chain of 4 layers, the 3 task layers with cached = false
C10_ScenarioA ==
    \A b \in DOMAIN db :
        /\ ~db[b].cache_tasks /\ pc[b] = "returned"
        /\ PlaybookLen(b) = 3 /\ Len(out[b]) = 3
        => /\ Len(Chain(b)) = 4
           /\ \A i \in 2..Len(Chain(b)) : ~Chain(b)[i].cached

\* the tasks of b the engine has finished, by a cache hit or by running them
FinishedTasks(b) == Len(out[b])

\* b is inside cache_task_result, before its record_progress
Snapshotting(b) == pc[b] \in {"L191", "L201"}

\* C11: for a build with caching enabled, every task the engine has finished
\* has appended exactly one layer: outside cache_task_result the persisted
\* chain has 1 + (finished tasks) layers; a build FAILED by its second task
\* has a chain of 2 layers
C11_OneLayerPerFinishedTask ==
    \A b \in DOMAIN db :
        db[b].cache_tasks /\ db[b].state # "SCHEDULED" /\ ~Snapshotting(b) =>
            /\ Len(Chain(b)) = 1 + FinishedTasks(b)
            /\ db[b].state = "FAILED" /\ task[b] = 2 => Len(Chain(b)) = 2

\* C12: the cache index is append-only and written only for fresh layers: no
\* step removes an entry or changes the value of a key that is present; an
\* entry is added only by the last step of cache_task_result of a build with
\* caching enabled, for the layer id the builder has just committed for that
\* build; maybe_load_from_cache, record_progress, build() and
\* cache_task_result of a build with caching disabled leave the index as it is
C12_IndexOnlyGrowsBySnapshot ==
    [][/\ store \subseteq store'
       /\ \A e \in store' \ store :
             /\ EntriesOf(store, e.content, e.base_image_id) = {}
             /\ \E b \in DOMAIN db :
                   /\ pc[b] = "L202" /\ pc'[b] # "L202"
                   /\ db[b].cache_tasks
                   /\ \E ts \in Timestamps :
                         calls[b][Len(calls[b])] =
                             Call("commit", SnapshotImageName(TargetImage(b), ts))
                   /\ loc[b].layer_id \in CommitIds
                   /\ e = [content |-> TaskContent(task[b]),
                           base_image_id |-> loc[b].base_image_id,
                           layer_id |-> loc[b].layer_id]
       /\ \A b \in BuildIds :
             pc'[b] # pc[b] /\ pc[b] # "L202" => store' = store]_vars

\* C12: a build with caching disabled has run its task and returned, and the
\* index holds an entry that the other build wrote
C12_Witness ==
    \E b, c \in DOMAIN db :
        /\ ~db[b].cache_tasks /\ pc[b] = "returned" /\ Len(out[b]) >= 1
        /\ db[c].cache_tasks
        /\ \E i \in 2..Len(Chain(c)) :
              [content |-> Chain(c)[i].content,
               base_image_id |-> Chain(c)[i].base_image_id,
               layer_id |-> Chain(c)[i].layer_id] \in store

\* the calls that go to the Builder
BuilderCalls == {"get_image_id", "swap_working_container", "commit", "clean"}

\* b is at, or past, a call to the Builder that calls does not note:
\* is_base_image_present, pull, find_python_interpreter, create
AtBuilder(b) == pc[b] \in {"L73", "L74", "L75", "L77", "L81"}

\* C13: build() checks the playbook first: before the check nothing is
\* persisted and nothing called; a build() that ended with the RuntimeError of
\* the check has persisted no record and has made no call to the Builder;
\* otherwise the first call of build() is the record_build that persists the
\* record, before get_image_id, pull, create and every other Builder call
C13_RecordBeforeBuilder ==
    \A b \in BuildIds :
        /\ pc[b] = "L55" \/ exc[b] = "RuntimeError" =>
              b \notin DOMAIN db /\ calls[b] = <<>>
        /\ \/ AtBuilder(b)
           \/ \E i \in 1..Len(calls[b]) : calls[b][i][1] \in BuilderCalls
           => /\ b \in DOMAIN db
              /\ calls[b][1] =
                     Call("record_build", <<"SCHEDULED", "no finish time", "no log lines">>)

\* C13: one build() has ended on the playbook check while the other has
\* asked the Builder for the base image and created the working container
C13_Witness ==
    \E b, c \in BuildIds :
        /\ pc[b] = "raised" /\ exc[b] = "RuntimeError"
        /\ pc[c] = "L81" /\ calls[c][2] = Call("get_image_id", <<>>)

\* C14: in every reachable state every Build record in the store has a chain
\* with at least the base layer
C14_ChainNeverEmpty == \A b \in DOMAIN db : Chain(b) # <<>>

\* C14, amended: every Build record in the store that is IN_PROGRESS, DONE or
\* FAILED has a chain that starts with the base layer, and get_top_layer_id
\* never fails with an empty chain in a callback; a record with an empty chain
\* is SCHEDULED, and its build() is between line 61 and line 71 or has ended
\* there
C14_ChainNonEmptyOnceInProgress ==
    \A b \in DOMAIN db :
        /\ db[b].state # "SCHEDULED" =>
              /\ GetTopLayerId(db[b]).ok
              /\ Chain(b)[1].content = Null /\ Chain(b)[1].base_image_id = Null
              /\ Chain(b)[1].layer_id \in BaseImageIds
        /\ cberr[b] # "EmptyChain"
        /\ Chain(b) = <<>> =>
              /\ db[b].state = "SCHEDULED"
              /\ pc[b] \in {"L63", "L71", "raised"}
              /\ pc[b] = "raised" => calls[b][Len(calls[b])] = Call("get_image_id", <<>>)

\* C14: the record of one build is in the store with an empty chain, after
\* get_image_id raised, while a callback of the other build has read the top
\* layer id of its record
C14_Witness ==
    \E b, c \in DOMAIN db :
        /\ Chain(b) = <<>> /\ pc[b] = "raised"
        /\ pc[c] = "exec" /\ db[c].cache_tasks /\ Len(Chain(c)) >= 1

\* C15: for a build with caching enabled, when the index holds an entry under
\* (content, top layer id), maybe_load_from_cache returns its layer id, the
\* engine skips the task, and the Builder is told to swap the working
\* container to exactly that layer id; when the index holds no entry, None is
\* returned, the task runs and no call goes to the Builder
C15_SwapToReturnedLayer ==
    [][\A b \in BuildIds :
          pc[b] = "load" /\ pc'[b] # "load" /\ db[b].cache_tasks =>
              IF EntriesOf(store, TaskContent(task[b]), TopOf(b)) # {}
              THEN /\ pc'[b] = "skip"
                   /\ \E e \in EntriesOf(store, TaskContent(task[b]), TopOf(b)) :
                         ret'[b] = e.layer_id
                   /\ calls'[b] =
                          Append(calls[b], Call("swap_working_container", <<ret'[b]>>))
              ELSE /\ pc'[b] = "exec" /\ ret'[b] = Null
                   /\ calls'[b] = calls[b]]_vars

\* C16: record_progress appends exactly one layer to the chain of the build,
\* with the top layer id from before the call as its base, persists the
\* record, and returns that top layer id. Called without a layer id, the layer
\* is cached = true and has the layer id the index holds for (content, top
\* layer id before the call); called with a layer id, the layer is cached =
\* false and has that layer id. Nothing else of the record changes
C16_RecordProgressAppendsOne ==
    [][\A b \in BuildIds :
          /\ pc[b] = "skip" /\ pc'[b] # "skip" =>
                /\ cberr'[b] = NoException
                /\ \E e \in EntriesOf(store, TaskContent(task[b]), TopOf(b)) :
                      db'[b] = [db[b] EXCEPT !.layers =
                                   Append(@, Layer(TaskContent(task[b]), e.layer_id,
                                                   TopOf(b), TRUE))]
          /\ pc[b] = "L201" /\ pc'[b] # "L201" =>
                /\ pc'[b] = "L202"
                /\ db'[b] = [db[b] EXCEPT !.layers =
                                Append(@, Layer(TaskContent(task[b]), loc[b].layer_id,
                                                TopOf(b), FALSE))]
                /\ loc'[b].base_image_id = TopOf(b)]_vars

\* C16: record_progress has recorded a reused layer and then, on top of it,
\* a committed layer, and has returned the id of the reused layer
C16_Witness ==
    \E b \in DOMAIN db :
        /\ pc[b] = "L202" /\ Len(Chain(b)) = 3
        /\ Chain(b)[2].cached /\ ~Chain(b)[3].cached
        /\ loc[b].base_image_id = Chain(b)[2].layer_id
        /\ Chain(b)[2].layer_id # Chain(b)[1].layer_id

\* s is a prefix of t
IsPrefix(s, t) == Len(s) <= Len(t) /\ SubSeq(t, 1, Len(s)) = s

\* C17: the persisted chain of a build is append-only: every step of build()
\* and of the callbacks, the writes of IN_PROGRESS, DONE, FAILED and of the
\* log lines included, leaves every layer there is in place and unchanged,
\* and keeps the record in the store
C17_ChainAppendOnly ==
    [][\A b \in DOMAIN db :
          /\ b \in DOMAIN db'
          /\ IsPrefix(db[b].layers, db'[b].layers)]_vars

\* C17: a build whose tasks all left a layer has ended DONE, with its log
\* lines written, and the other has ended FAILED
C17_Witness ==
    \E b, c \in DOMAIN db :
        /\ pc[b] = "returned" /\ db[b].state = "DONE"
        /\ db[b].log_lines # <<>> /\ Len(Chain(b)) = 1 + PlaybookLen(b)
        /\ Ended(c) /\ db[c].state = "FAILED" /\ Len(Chain(c)) >= 2

\* the step is one of build() of b or of a callback of the engine of b
StepOf(b) == pc'[b] # pc[b]

\* C18: two builds with distinct build ids, their build() calls and callbacks
\* interleaved: a step of one build never adds, changes or removes the
\* record of the other; each chain stays a linked ancestry list of its own
\* build; a step of one build leaves every entry of the cache index as it is,
\* also when both builds have the same top layer id and the same task
\* content
C18_BuildsDoNotInterfere ==
    [][\A b \in BuildIds :
          StepOf(b) =>
              /\ \A c \in BuildIds \ {b} :
                     /\ c \in DOMAIN db <=> c \in DOMAIN db'
                     /\ c \in DOMAIN db => db'[c] = db[c]
              /\ \A c \in DOMAIN db' :
                     /\ db'[c].build_id = c
                     /\ Ancestry(db'[c].layers)
              /\ \A e \in store : e \in store'
              /\ \A e \in store' :
                     EntriesOf(store', e.content, e.base_image_id) = {e}]_vars

\* C18: both builds, on the same base image, have run the same task and are
\* about to write different committed layers under the same key
C18_Witness ==
    \E b, c \in DOMAIN db :
        /\ b # c /\ pc[b] = "L202" /\ pc[c] = "L202"
        /\ TaskContent(task[b]) = TaskContent(task[c])
        /\ loc[b].base_image_id = loc[c].base_image_id
        /\ loc[b].layer_id # loc[c].layer_id

\* C19: every layer of every persisted chain has a layer id that is not
\* None, so the top layer id a lookup is keyed by is never None; this is so
\* also after record_progress was called without a layer id while the index
\* holds no entry for (content, top layer id)
C19_LayerIdsNeverNull ==
    \A b \in DOMAIN db :
        \A i \in 1..Len(Chain(b)) : Chain(b)[i].layer_id # Null

\* C20: every entry (content, base layer id) -> layer id of the cache index
\* is backed by a recorded layer: in every reachable state, between the steps
\* of cache_task_result too, the persisted chain of some build holds a layer
\* with that content, that base layer id, that layer id and cached = false
C20_EntriesAreBacked ==
    \A e \in store :
        \E b \in DOMAIN db :
            \E i \in 1..Len(Chain(b)) :
                Chain(b)[i] = Layer(e.content, e.layer_id, e.base_image_id, FALSE)

\* C20: cache_task_result of one build has recorded its layer and has not
\* yet written the entry for it, while the index holds the entry of a layer
\* of the other build, whose build() has ended
C20_Witness ==
    \E b, c \in DOMAIN db :
        /\ b # c /\ pc[b] = "L202" /\ Ended(c)
        /\ EntriesOf(store, TaskContent(task[b]), loc[b].base_image_id) = {}
        /\ Chain(b)[Len(Chain(b))].layer_id = loc[b].layer_id
        /\ \E e \in store : \E i \in 2..Len(Chain(c)) :
              Chain(c)[i] = Layer(e.content, e.layer_id, e.base_image_id, FALSE)

====
